---- MODULE Spec2Model ----
(***************************************************************************)
(* Model of the Letterboxd list scraper of what-to-watch:                  *)
(* api/fetch-list.js (decodeHtmlEntities, getPosterFromTMDB,               *)
(* enrichMoviesWithPosters, handler).                                      *)
(*                                                                         *)
(* Strings are sequences of tokens.  A token is a piece of text that the   *)
(* code's patterns never split: "&" and the entity bodies "amp;", "lt;",   *)
(* ... for decodeHtmlEntities; "http", "s", "://", "/", the crop sizes     *)
(* and the pieces of the two placeholder markers for the poster URLs.      *)
(* String search, replacement and prefix tests are computed on these       *)
(* sequences the way the JavaScript methods compute them on characters.    *)
(***************************************************************************)
EXTENDS Integers, Sequences, FiniteSets, TLC

VARIABLES
    arg,        \* input of a function under test (pure-function specifications)
    ret,        \* results of its successive applications
    pc,         \* position of the handler
    response,   \* status of the list page's response, 0 before it arrives
    req,        \* the request: [method, body]; body is undefined or holds url
    apiKey,     \* process.env.TMDB_API_KEY is set
    html,       \* body of the fetched list page
    movies,     \* the handler's movies array
    ran,        \* extraction methods whose body was entered
    extracted,  \* the movies array as the extraction left it
    i,          \* loop index of enrichMoviesWithPosters
    lookup,     \* per record: its getPosterFromTMDB call: "idle" (none), awaiting
                \* "fetch" or "json", returned null on a failure ("failed"), "done"
    nfetch,     \* list-page fetches issued
    nreq,       \* TMDB search requests issued
    ndelay,     \* pacing delays started
    res,        \* responses sent with res.status(..).json(..)
    build,      \* the roulette component built: "frames" is MovieRoulette.jsx, whose
                \* spin runs on animation frames; "timer" is the version whose spin
                \* ends on a timeout and whose load preloads the poster images
    state,      \* the component's useState values
    loads,      \* the fetchMovies calls that have not returned
    spins       \* the spins whose last callback has not run

uiVars == <<build, state, loads, spins>>

vars == <<uiVars, arg, ret, pc, response, req, apiKey, html, movies, ran, extracted, i, lookup,
          nfetch, nreq, ndelay, res>>

pipeVars == <<pc, response, req, apiKey, html, movies, ran, extracted, i, lookup,
              nfetch, nreq, ndelay, res>>

(***************************************************************************)
(* Bounds                                                                  *)
(***************************************************************************)
MaxUrlLen == 4      \* tokens in an input of the poster normalization
MaxTextLen == 3     \* tokens in an input of decodeHtmlEntities
MaxDoc == 4         \* size of a fetched page: blocks, list elements, li items
MaxLong == 6           \* records of the long single-block pages
MaxResults == 2        \* results of a search response
MaxFrames == 2         \* animation frames of a spin before its duration has elapsed
MaxPending == 2        \* calls of fetchMovies, and spins, pending at a time

(***************************************************************************)
(* JavaScript string methods on token sequences                            *)
(***************************************************************************)
\* String.prototype.startsWith
StartsWith(s, p) ==
    Len(s) >= Len(p) /\ SubSeq(s, 1, Len(p)) = p

\* String.prototype.indexOf, 1-based; 0 when p does not occur
IndexOf(s, p) ==
    LET hits == {k \in 1..(Len(s) - Len(p) + 1) : SubSeq(s, k, k + Len(p) - 1) = p}
    IN IF hits = {} THEN 0 ELSE CHOOSE k \in hits : \A m \in hits : k <= m

\* String.prototype.includes
Includes(s, p) == IndexOf(s, p) # 0

\* String.prototype.replace with a pattern without the g flag: first match only
ReplaceFirst(s, p, r) ==
    LET k == IndexOf(s, p)
    IN IF k = 0 THEN s
       ELSE SubSeq(s, 1, k - 1) \o r \o SubSeq(s, k + Len(p), Len(s))

\* String.prototype.replace with a /g pattern: every match, left to right,
\* the replacement text is not scanned again
RECURSIVE ReplaceAll(_, _, _)
ReplaceAll(s, p, r) ==
    LET k == IndexOf(s, p)
    IN IF k = 0 THEN s
       ELSE SubSeq(s, 1, k - 1) \o r
            \o ReplaceAll(SubSeq(s, k + Len(p), Len(s)), p, r)

\* String.prototype.trim; the only white space token is " "
RECURSIVE TrimLeft(_)
TrimLeft(s) ==
    IF s # <<>> /\ Head(s) = " " THEN TrimLeft(Tail(s)) ELSE s

RECURSIVE TrimRight(_)
TrimRight(s) ==
    IF s # <<>> /\ s[Len(s)] = " " THEN TrimRight(SubSeq(s, 1, Len(s) - 1)) ELSE s

Trim(s) == TrimRight(TrimLeft(s))

\* all token sequences of length at most n over the alphabet A
SeqsUpTo(A, n) == UNION {[1..k -> A] : k \in 0..n}

(***************************************************************************)
(* JavaScript values read from JSON: undefined/null/"" (falsy), a string,  *)
(* or a truthy value that is not a string (number, object, array)          *)
(***************************************************************************)
Undef == [t |-> "undef"]
NonStr == [t |-> "obj"]
Str(s) == [t |-> "str", v |-> s]
Falsy(x) == x.t = "undef" \/ (x.t = "str" /\ x.v = <<>>)
IsStr(x) == x.t = "str"

(***************************************************************************)
(* decodeHtmlEntities                                                      *)
(***************************************************************************)
Amp == <<"&">>

\* the chain of seven .replace(/.../g, ...) calls, in source order
DecodeChain(s) ==
    LET s1 == ReplaceAll(s, <<"&", "#039;">>, <<"'">>)
        s2 == ReplaceAll(s1, <<"&", "amp;">>, Amp)
        s3 == ReplaceAll(s2, <<"&", "quot;">>, <<"\"">>)
        s4 == ReplaceAll(s3, <<"&", "lt;">>, <<"<">>)
        s5 == ReplaceAll(s4, <<"&", "gt;">>, <<">">>)
        s6 == ReplaceAll(s5, <<"&", "nbsp;">>, <<" ">>)
    IN ReplaceAll(s6, <<"&", "apos;">>, <<"'">>)

\* if (!text) return text; a truthy value here is a string (a value that is
\* not a string has no replace method: see ElemThrows)
decodeHtmlEntities(text) ==
    IF Falsy(text) THEN text ELSE Str(DecodeChain(text.v))

(***************************************************************************)
(* Poster URL normalization (the same statements in methods 1, 2 and 3)    *)
(***************************************************************************)
LowResCrop == <<"/", "0-230-0-345-crop">>
HighResCrop == <<"/", "0-500-0-750-crop">>
Origin == <<"http", "s", "://", "letterboxd.com">>
EmptyPoster == <<"empty", "-poster">>
StaticImgEmpty == <<"static/img/", "empty">>

\* variant: the second marker is not tested
IsPlaceholderEmptyPosterOnly(p) == Includes(p, EmptyPoster)

\* poster.includes('empty-poster') || poster.includes('static/img/empty')
IsPlaceholder(p) == Includes(p, EmptyPoster) \/ Includes(p, StaticImgEmpty)

\* poster.replace(/\/0-230-0-345-crop/, '/0-500-0-750-crop')
UpgradeCrop(p) == ReplaceFirst(p, LowResCrop, HighResCrop)

\* if (!poster.startsWith('http')) poster = 'https://letterboxd.com' + poster
EnsureFullUrl(p) == IF StartsWith(p, <<"http">>) THEN p ELSE Origin \o p

\* if (poster) { replace; prefix; placeholder removal }
NormalizePoster(raw) ==
    IF raw = <<>> THEN raw
    ELSE LET p == EnsureFullUrl(UpgradeCrop(raw))
         IN IF IsPlaceholder(p) THEN <<>> ELSE p

(***************************************************************************)
(* The fetched page.  The handler reads it only through its regular        *)
(* expressions, so a page is what they can match:                          *)
(*   blocks  the <script type="application/ld+json"> blocks, in order      *)
(*   lis     the <li class="...listitem..."> elements, in order            *)
(*   ul      the first <ul class="...poster-list..."> and its <li> items   *)
(***************************************************************************)
AbsUrl == <<"http", "s", "://", "x">>
RelCropUrl == LowResCrop \o <<"x">>
PlaceholderUrl == <<"/">> \o EmptyPoster
BarePath == <<"http", "x">>
FilmPath == <<"/", "film/x/">>

\* an entry of itemListElement with an item
Item(name, image, date, director, url) ==
    [k |-> "item", name |-> name, image |-> image, datePublished |-> date,
     director |-> director, url |-> url]
NullElem == [k |-> "null"]       \* null: reading item.item throws
NoItemElem == [k |-> "noitem"]   \* an entry whose item is missing

ElemSet ==
    { Item(Str(<<"A">>), Str(AbsUrl), <<"2020">>, <<"D">>, Origin \o FilmPath),
      Item(Str(<<"B", "&", "amp;", "B">>), Str(RelCropUrl), <<>>, <<>>, <<>>),
      Item(Undef, Undef, <<"2020">>, <<>>, <<>>),
      Item(Str(<<"A">>), Str(PlaceholderUrl), <<>>, <<>>, FilmPath),
      Item(Str(<<"B">>), Str(BarePath), <<>>, <<>>, <<>>),
      Item(Str(<<"A">>), NonStr, <<>>, <<>>, <<>>),
      Item(NonStr, Str(AbsUrl), <<>>, <<>>, <<>>),
      NullElem,
      NoItemElem }

BadBlock == [k |-> "bad"]        \* JSON.parse throws
OtherBlock == [k |-> "other"]    \* parses, but is no ItemList with elements
ListBlock(es) == [k |-> "list", elems |-> es]

BlockWeight(b) == IF b.k = "list" THEN 1 + Len(b.elems) ELSE 1

BlocksUpTo(n) ==
    IF n < 1 THEN {}
    ELSE {BadBlock, OtherBlock} \cup {ListBlock(es) : es \in SeqsUpTo(ElemSet, n - 1)}

RECURSIVE LdSeqs(_)
LdSeqs(n) ==
    {<<>>} \cup UNION { {<<b>> \o rest : rest \in LdSeqs(n - BlockWeight(b))}
                        : b \in BlocksUpTo(n) }

RECURSIVE SumWeights(_)
SumWeights(bs) == IF bs = <<>> THEN 0 ELSE BlockWeight(Head(bs)) + SumWeights(Tail(bs))

\* a <li class="listitem">: the first capture of each pattern, <<>> when the
\* pattern does not match
Li(filmName, linkText, releaseYear, permalinkYear, srcs, frameHref) ==
    [filmName |-> filmName, linkText |-> linkText, releaseYear |-> releaseYear,
     permalinkYear |-> permalinkYear, srcs |-> srcs, frameHref |-> frameHref]

LiSet ==
    { Li(<<"A">>, <<"B">>, <<"2020">>, <<"1999">>, <<RelCropUrl, AbsUrl>>, FilmPath),
      Li(<<>>, <<" ", "B", "&", "amp;", "B", " ">>, <<>>, <<"1999">>, <<<<>>, PlaceholderUrl>>, <<>>),
      Li(<<>>, <<>>, <<"2020">>, <<>>, <<AbsUrl>>, FilmPath),
      Li(<<" ">>, <<"B">>, <<>>, <<>>, <<<<>>, <<>>, BarePath>>, <<>>) }

\* an <li> of the poster list
UlItem(slug, alt, srcs, href) ==
    [slug |-> slug, alt |-> alt, srcs |-> srcs, href |-> href]

UlItemSet ==
    { UlItem(<<"the", "-", "matrix">>, <<"Alt">>, <<RelCropUrl>>, FilmPath),
      UlItem(<<>>, <<"spider", "-", "man", "&", "amp;", "co">>, <<PlaceholderUrl, AbsUrl>>, <<>>),
      UlItem(<<>>, <<>>, <<AbsUrl>>, FilmPath) }

NoUl == [k |-> "none"]
Ul(items) == [k |-> "ul", items |-> items]
UlsUpTo(n) ==
    {NoUl} \cup (IF n < 1 THEN {} ELSE {Ul(items) : items \in SeqsUpTo(UlItemSet, n - 1)})

Doc(blocks, lis, ul) == [blocks |-> blocks, lis |-> lis, ul |-> ul]

batchSize == 5      \* const batchSize = 5

\* pages of one ItemList block with n records, of which the first or the last
\* j lack a usable image
LongElem(k, needs) ==
    Item(Str(IF k % 2 = 1 THEN <<"A">> ELSE <<"B">>),
         IF needs THEN Str(PlaceholderUrl) ELSE Str(AbsUrl),
         <<"2020">>, <<>>, FilmPath)

LongDocs ==
    { Doc(<<ListBlock([k \in 1..n |-> LongElem(k, IF first THEN k <= j ELSE k > n - j)])>>,
          <<>>, NoUl)
      : <<n, j, first>> \in {t \in ((batchSize + 1)..MaxLong) \X (0..MaxLong) \X BOOLEAN : t[2] <= t[1]} }

\* pages of one ItemList block with three batches of records, one of which
\* lacks a usable image
ThreeBatchDocs ==
    { Doc(<<ListBlock([k \in 1..(2 * batchSize + 1) |-> LongElem(k, k = p)])>>,
          <<>>, NoUl)
      : p \in {1, batchSize + 1, 2 * batchSize + 1} }


(***************************************************************************)
(* Movie records and the three extraction methods                          *)
(***************************************************************************)
Movie(title, year, director, poster, link) ==
    [title |-> title, year |-> year, director |-> director,
     poster |-> poster, link |-> link]

\* x || ''
OrEmpty(x) == IF Falsy(x) THEN Str(<<>>) ELSE x

\* Method 1 ---------------------------------------------------------------
\* statements of the loop body that throw a TypeError: item.item of null,
\* poster.replace and text.replace of a value that is not a string
ElemThrows(e) ==
    \/ e.k = "null"
    \/ /\ e.k = "item"
       /\ \/ ~Falsy(e.image) /\ ~IsStr(e.image)
          \/ ~Falsy(e.name) /\ ~IsStr(e.name)

\* the object pushed for an entry with an item (no test of the title)
ElemRecord(e) ==
    Movie(decodeHtmlEntities(OrEmpty(e.name)).v,
          e.datePublished,
          e.director,
          NormalizePoster(OrEmpty(e.image).v),
          e.url)

\* for (const item of data.itemListElement): the records pushed until the
\* loop ends or a statement throws into the catch around the block
RECURSIVE BlockRecords(_)
BlockRecords(elems) ==
    IF elems = <<>> THEN <<>>
    ELSE LET e == Head(elems)
         IN IF ElemThrows(e) THEN <<>>
            ELSE (IF e.k = "item" THEN <<ElemRecord(e)>> ELSE <<>>)
                 \o BlockRecords(Tail(elems))

\* variant: html.match without the g flag, only the first block is read
Method1FirstBlock(blocks) ==
    IF blocks = <<>> THEN <<>>
    ELSE IF Head(blocks).k = "list" THEN BlockRecords(Head(blocks).elems) ELSE <<>>

\* variant: the try statement surrounds the loop, a block that does not
\* parse ends method 1
RECURSIVE Method1StopAtBad(_)
Method1StopAtBad(blocks) ==
    IF blocks = <<>> THEN <<>>
    ELSE LET b == Head(blocks)
         IN IF b.k = "bad" THEN <<>>
            ELSE (IF b.k = "list" THEN BlockRecords(b.elems) ELSE <<>>)
                 \o Method1StopAtBad(Tail(blocks))

\* for (const match of jsonLdMatch) { try { ... } catch (e) {} }
RECURSIVE Method1(_)
Method1(blocks) ==
    IF blocks = <<>> THEN <<>>
    ELSE LET b == Head(blocks)
         IN (IF b.k = "list" THEN BlockRecords(b.elems) ELSE <<>>)
            \o Method1(Tail(blocks))

\* Method 2 ---------------------------------------------------------------
\* a || b || ... over pattern captures: the first that matched
RECURSIVE FirstMatch(_)
FirstMatch(caps) ==
    IF caps = <<>> THEN <<>>
    ELSE IF Head(caps) # <<>> THEN Head(caps) ELSE FirstMatch(Tail(caps))

\* link && !link.startsWith('http') ? origin + link : link
FullLink(link) ==
    IF link # <<>> /\ ~StartsWith(link, <<"http">>) THEN Origin \o link ELSE link

\* variant: the link text is preferred to the data-film-name attribute
LiTitleLinkFirst(li) ==
    LET m == FirstMatch(<<li.linkText, li.filmName>>)
    IN IF m = <<>> THEN <<>> ELSE decodeHtmlEntities(Str(Trim(m))).v

\* titleMatch ? decodeHtmlEntities(titleMatch[1].trim()) : ''
LiTitle(li) ==
    LET m == FirstMatch(<<li.filmName, li.linkText>>)
    IN IF m = <<>> THEN <<>> ELSE decodeHtmlEntities(Str(Trim(m))).v

LiYear(li) == FirstMatch(<<li.releaseYear, li.permalinkYear>>)

LiRecord(li) ==
    Movie(LiTitle(li), LiYear(li), <<>>,
          NormalizePoster(FirstMatch(li.srcs)), FullLink(li.frameHref))

\* variant: a title that occurs again later in the list is not pushed
RECURSIVE Method2Dedup(_)
Method2Dedup(lis) ==
    IF lis = <<>> THEN <<>>
    ELSE LET rest == Method2Dedup(Tail(lis))
             title == LiTitle(Head(lis))
         IN IF title # <<>> /\ \A k \in 1..Len(rest) : rest[k].title # title
            THEN <<LiRecord(Head(lis))>> \o rest
            ELSE rest

\* for (const movieHtml of movieMatches) { ...; if (title) movies.push(..) }
RECURSIVE Method2(_)
Method2(lis) ==
    IF lis = <<>> THEN <<>>
    ELSE (IF LiTitle(Head(lis)) # <<>> THEN <<LiRecord(Head(lis))>> ELSE <<>>)
         \o Method2(Tail(lis))

\* Method 3 ---------------------------------------------------------------
\* l => l.toUpperCase() on the first letter of a token
Upper(tok) ==
    CASE tok = "the" -> "The"
      [] tok = "matrix" -> "Matrix"
      [] tok = "spider" -> "Spider"
      [] tok = "man" -> "Man"
      [] tok = "amp;" -> "Amp;"
      [] tok = "co" -> "Co"
      [] OTHER -> tok

\* tokens that begin with a word character (\w)
WordTok(tok) ==
    tok \in {"the", "matrix", "spider", "man", "amp;", "co", "Alt", "A", "B", "x"}

\* tokens that end with a word character
WordEnd(tok) == WordTok(tok) /\ tok # "amp;"

\* .replace(/-/g, ' ').replace(/\b\w/g, l => l.toUpperCase()): the first
\* letter of a token is at a word boundary when no word character precedes it
Capitalize(s) ==
    LET t == ReplaceAll(s, <<"-">>, <<" ">>)
    IN [k \in 1..Len(t) |->
          IF WordTok(t[k]) /\ (k = 1 \/ ~WordEnd(t[k - 1])) THEN Upper(t[k]) ELSE t[k]]

UlTitle(it) ==
    LET m == FirstMatch(<<it.slug, it.alt>>)
    IN IF m = <<>> THEN <<>> ELSE decodeHtmlEntities(Str(Capitalize(m))).v

UlRecord(it) ==
    Movie(UlTitle(it), <<>>, <<>>,
          NormalizePoster(FirstMatch(it.srcs)), FullLink(it.href))

RECURSIVE UlRecords(_)
UlRecords(items) ==
    IF items = <<>> THEN <<>>
    ELSE (IF UlTitle(Head(items)) # <<>> THEN <<UlRecord(Head(items))>> ELSE <<>>)
         \o UlRecords(Tail(items))

\* if (listMatch) { for (const item of itemMatches) ... }
Method3(ul) == IF ul.k = "ul" THEN UlRecords(ul.items) ELSE <<>>

(***************************************************************************)
(* TMDB search responses: data.results as the poster_path of each result   *)
(* (<<>> for a result without one)                                         *)
(***************************************************************************)
PosterPath == <<"/", "abc.jpg">>
OtherPath == <<"/", "def.jpg">>
TmdbBase == <<"http", "s", "://", "image.tmdb.org/t/p/w500">>

\* data.results of a parsed search response: the poster_path of each result,
\* <<>> for a result without one
TmdbData ==
    { <<>>, <<PosterPath>>, <<<<>>, OtherPath>>, <<PosterPath, OtherPath>> }

\* variant: the first result that has a poster_path is taken
RECURSIVE TmdbPosterAnyResult(_)
TmdbPosterAnyResult(results) ==
    IF results = <<>> THEN <<>>
    ELSE IF Head(results) # <<>> THEN TmdbBase \o Head(results)
    ELSE TmdbPosterAnyResult(Tail(results))

\* the value getPosterFromTMDB returns for a parsed body (<<>> for null)
TmdbPoster(results) ==
    IF Len(results) > 0 /\ results[1] # <<>> THEN TmdbBase \o results[1] ELSE <<>>

\* variant: every record is looked up
NeedsPosterAlways(m) == TRUE

\* !movie.poster || movie.poster.includes('empty-poster') || ...includes('static/img/empty')
NeedsPoster(m) ==
    m.poster = <<>> \/ Includes(m.poster, EmptyPoster) \/ Includes(m.poster, StaticImgEmpty)

\* variant: the slice has no upper end
BatchToEnd(ms, at) == {k \in 1..Len(ms) : at < k}

\* variant: the slices overlap by one record
BatchOverlapping(ms, at) == {k \in 1..Len(ms) : at - 1 < k /\ k <= at + batchSize}

\* movies.slice(i, i + batchSize), as 1-based positions
Batch(ms, at) == {k \in 1..Len(ms) : at < k /\ k <= at + batchSize}

(***************************************************************************)
(* Requests and responses of the handler                                   *)
(***************************************************************************)
ListUrl == <<"letterboxd.com", "/", "u", "/list/", "n">>

\* one address the pattern accepts; the other scheme and host forms are the
\* prefixes of the rejected addresses
UrlSet ==
    { Undef,
      Str(<<>>),
      Str(<<"http", "://", "www.">> \o ListUrl),
      Str(<<"http", "s", "://", "evil.com", "/", "u", "/list/", "n">>),
      Str(<<"http", "s", "://", "letterboxd.com", "/", "u", "/list/">>),
      Str(<<"ftp", "://">> \o ListUrl) }

\* req.body when the request carried a parsed body
Body(url) == [t |-> "obj", url |-> url]

\* /^https?:\/\/(www\.)?letterboxd\.com\/.+\/list\/.+/.test(url)
LetterboxdRegexTest(u) ==
    \E scheme \in {<<"http">>, <<"http", "s">>}, www \in {<<>>, <<"www.">>} :
        LET pre == scheme \o <<"://">> \o www \o <<"letterboxd.com", "/">>
        IN /\ StartsWith(u, pre)
           /\ \E k \in (Len(pre) + 2)..(Len(u) - 1) : u[k] = "/list/"

Response(status, body) == [status |-> status, body |-> body]
\* { error: msg }; upstream is the status quoted in `Failed to fetch list: ${status}`
ErrorBody(msg) == [error |-> msg, upstream |-> 0, movies |-> <<>>]
FetchErrorBody(status) ==
    [error |-> "Failed to fetch list: ", upstream |-> status, movies |-> <<>>]
\* { movies }
MoviesBody(ms) == [error |-> "", upstream |-> 0, movies |-> ms]

FetchStatuses == {404, 500}

\* res.status(status).json(body)
Send(status, body) == res' = Append(res, Response(status, body))

(***************************************************************************)
(* The roulette component: its state                                       *)
(***************************************************************************)
Null == "null"

\* useState('') / useState([]) / useState(false) / useState(null)
InitialState ==
    [listUrl |-> <<>>, movies |-> <<>>, loading |-> FALSE, preloadingImages |-> FALSE,
     error |-> "", selectedMovie |-> Null, isSpinning |-> FALSE]

\* the component is mounted and nothing has happened to it
UiIdle ==
    /\ build = "frames"
    /\ state = InitialState
    /\ loads = <<>>
    /\ spins = <<>>

(***************************************************************************)
(* The handler                                                             *)
(***************************************************************************)
NoLookups == <<>>

PipeInit ==
    /\ pc = "start"
    /\ response = 0
    /\ req \in [method : {"POST", "GET"}, body : {Undef} \cup {Body(u) : u \in UrlSet}]
    /\ apiKey \in BOOLEAN
    /\ html = Doc(<<>>, <<>>, NoUl)
    /\ movies = <<>>
    /\ ran = {}
    /\ extracted = <<>>
    /\ i = 0
    /\ lookup = NoLookups
    /\ nfetch = 0
    /\ nreq = 0
    /\ ndelay = 0
    /\ res = <<>>

Init ==
    /\ arg = Undef
    /\ ret = <<>>
    /\ PipeInit
    /\ UiIdle

\* if (req.method !== 'POST') return res.status(405)...
RejectMethod ==
    /\ pc = "start"
    /\ req.method # "POST"
    /\ Send(405, ErrorBody("Method not allowed"))
    /\ pc' = "done"
    /\ UNCHANGED <<uiVars, arg, ret, response, extracted, req, apiKey, html, movies, ran, i, lookup,
                   nfetch, nreq, ndelay>>

\* const { url } = req.body with req.body undefined: the TypeError is thrown
\* before the try statement, the handler's promise rejects and nothing is sent
DestructureThrows ==
    /\ pc = "start"
    /\ req.method = "POST"
    /\ req.body = Undef
    /\ pc' = "thrown"
    /\ UNCHANGED <<uiVars, arg, ret, response, extracted, req, apiKey, html, movies, ran, i, lookup,
                   nfetch, nreq, ndelay, res>>

\* if (!url) return res.status(400)...
RejectMissingUrl ==
    /\ pc = "start"
    /\ req.method = "POST"
    /\ req.body # Undef
    /\ Falsy(req.body.url)
    /\ Send(400, ErrorBody("URL is required"))
    /\ pc' = "done"
    /\ UNCHANGED <<uiVars, arg, ret, response, extracted, req, apiKey, html, movies, ran, i, lookup,
                   nfetch, nreq, ndelay>>

\* if (!letterboxdRegex.test(url)) return res.status(400)...
RejectInvalidUrl ==
    /\ pc = "start"
    /\ req.method = "POST"
    /\ req.body # Undef
    /\ ~Falsy(req.body.url)
    /\ ~LetterboxdRegexTest(req.body.url.v)
    /\ Send(400, ErrorBody("Invalid Letterboxd list URL"))
    /\ pc' = "done"
    /\ UNCHANGED <<uiVars, arg, ret, response, extracted, req, apiKey, html, movies, ran, i, lookup,
                   nfetch, nreq, ndelay>>

\* const response = await fetch(url, ...): the request is sent
StartFetch ==
    /\ pc = "start"
    /\ req.method = "POST"
    /\ req.body # Undef
    /\ ~Falsy(req.body.url)
    /\ LetterboxdRegexTest(req.body.url.v)
    /\ nfetch' = nfetch + 1
    /\ pc' = "fetching"
    /\ UNCHANGED <<uiVars, arg, ret, response, extracted, req, apiKey, html, movies, ran, i, lookup,
                   nreq, ndelay, res>>

\* catch (error) { return res.status(500).json({ error: error.message || ... }) }
Catch(body) ==
    /\ Send(500, body)
    /\ pc' = "done"

\* fetch rejects (network failure)
FetchThrows ==
    /\ pc = "fetching"
    /\ Catch(ErrorBody("fetch failed"))
    /\ UNCHANGED <<uiVars, arg, ret, response, extracted, req, apiKey, html, movies, ran, i, lookup,
                   nfetch, nreq, ndelay>>

\* the response of the list page arrives
FetchResponds ==
    /\ pc = "fetching"
    /\ \E status \in {200} \cup FetchStatuses : response' = status
    /\ pc' = "responded"
    /\ UNCHANGED <<uiVars, arg, ret, extracted, req, apiKey, html, movies, ran, i, lookup,
                   nfetch, nreq, ndelay, res>>

\* variant: the status is not tested
ResponseOkAlways(status) == TRUE

\* response.ok
ResponseOk(status) == status \in 200..299

\* if (!response.ok) throw new Error(`Failed to fetch list: ${response.status}`)
FetchNotOk ==
    /\ pc = "responded"
    /\ ~ResponseOk(response)
    /\ Catch(FetchErrorBody(response))
    /\ UNCHANGED <<uiVars, arg, ret, response, extracted, req, apiKey, html, movies, ran, i,
                   lookup, nfetch, nreq, ndelay>>

\* response.ok: const html = await response.text() is awaited
FetchOk ==
    /\ pc = "responded"
    /\ ResponseOk(response)
    /\ pc' = "reading"
    /\ UNCHANGED <<uiVars, arg, ret, response, extracted, req, apiKey, html, movies, ran, i,
                   lookup, nfetch, nreq, ndelay, res>>

\* response.text() rejects
TextThrows ==
    /\ pc = "reading"
    /\ Catch(ErrorBody("body read failed"))
    /\ UNCHANGED <<uiVars, arg, ret, response, extracted, req, apiKey, html, movies, ran, i, lookup,
                   nfetch, nreq, ndelay>>

\* the body arrives; const movies = []
TextArrives ==
    /\ pc = "reading"
    \* a page of weight at most MaxDoc, or a page with many records
    /\ \/ \E bs \in LdSeqs(MaxDoc) :
             \E ls \in SeqsUpTo(LiSet, MaxDoc - SumWeights(bs)) :
                \E u \in UlsUpTo(MaxDoc - SumWeights(bs) - Len(ls)) :
                   html' = Doc(bs, ls, u)
       \/ \E doc \in LongDocs \cup ThreeBatchDocs : html' = doc
    /\ movies' = <<>>
    /\ pc' = "method1"
    /\ UNCHANGED <<uiVars, arg, ret, response, extracted, req, apiKey, ran, i, lookup,
                   nfetch, nreq, ndelay, res>>

\* Method 1: the JSON-LD blocks
RunMethod1 ==
    /\ pc = "method1"
    /\ movies' = movies \o Method1(html.blocks)
    /\ ran' = ran \cup {1}
    /\ pc' = "method2"
    /\ UNCHANGED <<uiVars, arg, ret, response, extracted, req, apiKey, html, i, lookup,
                   nfetch, nreq, ndelay, res>>

\* variant: method 2 runs whatever method 1 found
Method2GuardAlways(ms) == TRUE

\* if (movies.length === 0) { Method 2 }
Method2Guard(ms) == Len(ms) = 0

RunMethod2 ==
    /\ pc = "method2"
    /\ Method2Guard(movies)
    /\ movies' = movies \o Method2(html.lis)
    /\ ran' = ran \cup {2}
    /\ pc' = "method3"
    /\ UNCHANGED <<uiVars, arg, ret, response, extracted, req, apiKey, html, i, lookup,
                   nfetch, nreq, ndelay, res>>

SkipMethod2 ==
    /\ pc = "method2"
    /\ ~Method2Guard(movies)
    /\ pc' = "method3"
    /\ UNCHANGED <<uiVars, arg, ret, response, extracted, req, apiKey, html, movies, ran, i, lookup,
                   nfetch, nreq, ndelay, res>>

\* if (movies.length === 0) { Method 3 }
Method3Guard(ms) == Len(ms) = 0

RunMethod3 ==
    /\ pc = "method3"
    /\ Method3Guard(movies)
    /\ movies' = movies \o Method3(html.ul)
    /\ extracted' = movies'
    /\ ran' = ran \cup {3}
    /\ pc' = "extracted"
    /\ UNCHANGED <<uiVars, arg, ret, response, req, apiKey, html, i, lookup,
                   nfetch, nreq, ndelay, res>>

SkipMethod3 ==
    /\ pc = "method3"
    /\ ~Method3Guard(movies)
    /\ extracted' = movies
    /\ pc' = "extracted"
    /\ UNCHANGED <<uiVars, arg, ret, response, req, apiKey, html, movies, ran, i, lookup,
                   nfetch, nreq, ndelay, res>>

\* variant: the empty list is answered like a failed fetch
RespondNotFoundAsError ==
    /\ pc = "extracted"
    /\ Len(movies) = 0
    /\ Send(500, ErrorBody("No movies found in this list. Make sure the list is public."))
    /\ pc' = "done"
    /\ UNCHANGED <<uiVars, arg, ret, response, extracted, req, apiKey, html, movies, ran, i,
                   lookup, nfetch, nreq, ndelay>>

\* if (movies.length === 0) return res.status(404)...
RespondNotFound ==
    /\ pc = "extracted"
    /\ Len(movies) = 0
    /\ Send(404, ErrorBody("No movies found in this list. Make sure the list is public."))
    /\ pc' = "done"
    /\ UNCHANGED <<uiVars, arg, ret, response, extracted, req, apiKey, html, movies, ran, i, lookup,
                   nfetch, nreq, ndelay>>

(***************************************************************************)
(* enrichMoviesWithPosters, called by the handler                          *)
(***************************************************************************)
\* variant: the key is not tested
EnrichReturnsAtOnceEmptyOnly(key, ms) == Len(ms) = 0

\* if (!apiKey || movies.length === 0) return movies
EnrichReturnsAtOnce(key, ms) == ~key \/ Len(ms) = 0

\* const enrichedMovies = await enrichMoviesWithPosters(movies): no key
EnrichNoKey ==
    /\ pc = "extracted"
    /\ Len(movies) # 0
    /\ EnrichReturnsAtOnce(apiKey, movies)
    /\ pc' = "enriched"
    /\ UNCHANGED <<uiVars, arg, ret, response, extracted, req, apiKey, html, movies, ran, i, lookup,
                   nfetch, nreq, ndelay, res>>

\* the call enters the loop: let i = 0
EnrichEnter ==
    /\ pc = "extracted"
    /\ Len(movies) # 0
    /\ ~EnrichReturnsAtOnce(apiKey, movies)
    /\ i' = 0
    /\ lookup' = [k \in 1..Len(movies) |-> "idle"]
    /\ pc' = "loop"
    /\ UNCHANGED <<uiVars, arg, ret, response, extracted, req, apiKey, html, movies, ran,
                   nfetch, nreq, ndelay, res>>

\* the records of a batch whose callback calls getPosterFromTMDB
Wanted(ms, at) == {k \in Batch(ms, at) : NeedsPoster(ms[k])}

\* batch.map(async (movie) => ...): every callback runs up to its first
\* await, which sends the search request of getPosterFromTMDB
StartBatch ==
    /\ pc = "loop"
    /\ i < Len(movies)
    /\ lookup' = [k \in 1..Len(movies) |->
                    IF k \in Wanted(movies, i) THEN "fetch" ELSE lookup[k]]
    /\ nreq' = nreq + Cardinality(Wanted(movies, i))
    /\ pc' = "awaitAll"
    /\ UNCHANGED <<uiVars, arg, ret, response, extracted, req, apiKey, html, movies, ran, i,
                   nfetch, ndelay, res>>

\* the for condition fails: return movies
LoopEnds ==
    /\ pc = "loop"
    /\ ~(i < Len(movies))
    /\ pc' = "enriched"
    /\ UNCHANGED <<uiVars, arg, ret, response, extracted, req, apiKey, html, movies, ran, i, lookup,
                   nfetch, nreq, ndelay, res>>

\* variant: the error is thrown again, Promise.all rejects and the handler's
\* catch answers 500
RethrowFromCatch(k) ==
    /\ lookup' = [lookup EXCEPT ![k] = "failed"]
    /\ Catch(ErrorBody("TMDB API error"))
    /\ UNCHANGED movies

\* catch (error) { console.error(...); return null }: the callback returns
\* its movie untouched
ReturnNullFromCatch(k) ==
    /\ lookup' = [lookup EXCEPT ![k] = "failed"]
    /\ UNCHANGED <<pc, movies, res>>

\* fetch(searchUrl) rejects
LookupFetchThrows ==
    /\ pc = "awaitAll"
    /\ \E k \in DOMAIN lookup :
          /\ lookup[k] = "fetch"
          /\ ReturnNullFromCatch(k)
    /\ UNCHANGED <<uiVars, arg, ret, response, extracted, req, apiKey, html, ran, i, nfetch, nreq, ndelay>>

\* if (!response.ok) return null
LookupNotOk ==
    /\ pc = "awaitAll"
    /\ \E k \in DOMAIN lookup :
          /\ lookup[k] = "fetch"
          /\ lookup' = [lookup EXCEPT ![k] = "failed"]
    /\ UNCHANGED <<uiVars, arg, ret, response, extracted, pc, req, apiKey, html, movies, ran, i,
                   nfetch, nreq, ndelay, res>>

\* response.ok: const data = await response.json() is awaited
LookupOk ==
    /\ pc = "awaitAll"
    /\ \E k \in DOMAIN lookup :
          /\ lookup[k] = "fetch"
          /\ lookup' = [lookup EXCEPT ![k] = "json"]
    /\ UNCHANGED <<uiVars, arg, ret, response, extracted, pc, req, apiKey, html, movies, ran, i,
                   nfetch, nreq, ndelay, res>>

\* response.json() rejects, or reading data.results throws
LookupJsonThrows ==
    /\ pc = "awaitAll"
    /\ \E k \in DOMAIN lookup :
          /\ lookup[k] = "json"
          /\ ReturnNullFromCatch(k)
    /\ UNCHANGED <<uiVars, arg, ret, response, extracted, req, apiKey, html, ran, i, nfetch, nreq, ndelay>>

\* variant: the URL is stored in the wrong field
SetPosterAsLink(ms, k, poster) ==
    IF poster # <<>> THEN [ms EXCEPT ![k].link = poster] ELSE ms

\* variant: the lookup also fills the director
SetPosterAndDirector(ms, k, poster) ==
    IF poster # <<>> THEN [ms EXCEPT ![k].poster = poster, ![k].director = poster] ELSE ms

\* if (tmdbPoster) movie.poster = tmdbPoster
SetPoster(ms, k, poster) ==
    IF poster # <<>> THEN [ms EXCEPT ![k].poster = poster] ELSE ms

\* the body parses: the value of getPosterFromTMDB reaches the callback
LookupJson ==
    /\ pc = "awaitAll"
    /\ \E k \in DOMAIN lookup, results \in TmdbData :
          /\ lookup[k] = "json"
          /\ lookup' = [lookup EXCEPT ![k] = "done"]
          /\ movies' = SetPoster(movies, k, TmdbPoster(results))
    /\ UNCHANGED <<uiVars, arg, ret, response, extracted, pc, req, apiKey, html, ran, i,
                   nfetch, nreq, ndelay, res>>

\* variant: the promises are not awaited
AllSettledNotAwaited == TRUE

\* await Promise.all(promises) resumes when every callback has returned
AllSettled == \A k \in DOMAIN lookup : lookup[k] \in {"idle", "failed", "done"}

\* variant: the delay also follows the last batch
MoreBatchesAlways(at, ms) == TRUE

\* if (i + batchSize < movies.length) await new Promise(... setTimeout ...)
MoreBatches(at, ms) == at + batchSize < Len(ms)

BatchDoneDelay ==
    /\ pc = "awaitAll"
    /\ AllSettled
    /\ MoreBatches(i, movies)
    /\ ndelay' = ndelay + 1
    /\ pc' = "delay"
    /\ UNCHANGED <<uiVars, arg, ret, response, extracted, req, apiKey, html, movies, ran, i, lookup,
                   nfetch, nreq, res>>

\* no batch follows: i += batchSize ends the loop
BatchDoneLast ==
    /\ pc = "awaitAll"
    /\ AllSettled
    /\ ~MoreBatches(i, movies)
    /\ i' = i + batchSize
    /\ pc' = "loop"
    /\ UNCHANGED <<uiVars, arg, ret, response, extracted, req, apiKey, html, movies, ran, lookup,
                   nfetch, nreq, ndelay, res>>

\* the timer fires: i += batchSize
DelayElapsed ==
    /\ pc = "delay"
    /\ i' = i + batchSize
    /\ pc' = "loop"
    /\ UNCHANGED <<uiVars, arg, ret, response, extracted, req, apiKey, html, movies, ran, lookup,
                   nfetch, nreq, ndelay, res>>

\* return res.status(200).json({ movies: enrichedMovies })
RespondOk ==
    /\ pc = "enriched"
    /\ Send(200, MoviesBody(movies))
    /\ pc' = "done"
    /\ UNCHANGED <<uiVars, arg, ret, response, extracted, req, apiKey, html, movies, ran, i, lookup,
                   nfetch, nreq, ndelay>>

Next ==
    \/ RejectMethod
    \/ DestructureThrows
    \/ RejectMissingUrl
    \/ RejectInvalidUrl
    \/ StartFetch
    \/ FetchThrows
    \/ FetchResponds
    \/ FetchNotOk
    \/ FetchOk
    \/ TextThrows
    \/ TextArrives
    \/ RunMethod1
    \/ RunMethod2
    \/ SkipMethod2
    \/ RunMethod3
    \/ SkipMethod3
    \/ RespondNotFound
    \/ EnrichNoKey
    \/ EnrichEnter
    \/ StartBatch
    \/ LoopEnds
    \/ LookupFetchThrows
    \/ LookupNotOk
    \/ LookupOk
    \/ LookupJsonThrows
    \/ LookupJson
    \/ BatchDoneDelay
    \/ BatchDoneLast
    \/ DelayElapsed
    \/ RespondOk

Spec == Init /\ [][Next]_vars

(***************************************************************************)
(* The poster normalization and decodeHtmlEntities on their own: the       *)
(* input is any token sequence within the bounds, the handler stays idle   *)
(***************************************************************************)
PipeIdle ==
    /\ pc = "idle"
    /\ response = 0
    /\ req = [method |-> "POST", body |-> Undef]
    /\ apiKey = FALSE
    /\ html = Doc(<<>>, <<>>, NoUl)
    /\ movies = <<>>
    /\ ran = {}
    /\ extracted = <<>>
    /\ i = 0
    /\ lookup = NoLookups
    /\ nfetch = 0
    /\ nreq = 0
    /\ ndelay = 0
    /\ res = <<>>

\* "x" stands for any other text
UrlAlphabet ==
    {"http", "/", "0-230-0-345-crop", "empty", "-poster", "static/img/", "x"}

NormInit ==
    /\ arg \in {Str(s) : s \in SeqsUpTo(UrlAlphabet, MaxUrlLen)}
    /\ ret = <<>>
    /\ PipeIdle
    /\ UiIdle

\* the normalization applied to the input, then to its own result
NormalizeStep ==
    /\ pc = "idle"
    /\ Len(ret) < 2
    /\ ret' = Append(ret, NormalizePoster(IF ret = <<>> THEN arg.v ELSE ret[Len(ret)]))
    /\ UNCHANGED <<uiVars, arg, pipeVars>>

NormNext == NormalizeStep

SpecNorm == NormInit /\ [][NormNext]_vars

TextAlphabet ==
    {"&", "amp;", "lt;", "gt;", "quot;", "nbsp;", "apos;", "#039;", "copy;", "x", "<", "'"}

DecodeInit ==
    /\ arg \in {Undef} \cup {Str(s) : s \in SeqsUpTo(TextAlphabet, MaxTextLen)}
    /\ ret = <<>>
    /\ PipeIdle
    /\ UiIdle

DecodeStep ==
    /\ pc = "idle"
    /\ ret = <<>>
    /\ ret' = <<decodeHtmlEntities(arg)>>
    /\ UNCHANGED <<uiVars, arg, pipeVars>>

DecodeNext == DecodeStep

SpecDecode == DecodeInit /\ [][DecodeNext]_vars

\* one callback of batch.map whose search response parses -------------------
ResultSet == {<<>>, PosterPath, OtherPath}

TmdbMovies ==
    { Movie(<<"A">>, <<"2020">>, <<>>, p, FilmPath)
      : p \in {<<>>, PlaceholderUrl, Origin \o <<"/">> \o StaticImgEmpty, AbsUrl} }

\* the record the callback returns: getPosterFromTMDB returns null without a
\* key, otherwise the poster of the parsed results
CallbackResult(key, movie, results) ==
    IF NeedsPoster(movie)
    THEN SetPoster(<<movie>>, 1, IF ~key THEN <<>> ELSE TmdbPoster(results))[1]
    ELSE movie

TmdbInit ==
    /\ arg \in [key : BOOLEAN, movie : TmdbMovies,
                results : SeqsUpTo(ResultSet, MaxResults)]
    /\ ret = <<>>
    /\ PipeIdle
    /\ UiIdle

TmdbStep ==
    /\ pc = "idle"
    /\ ret = <<>>
    /\ ret' = <<CallbackResult(arg.key, arg.movie, arg.results)>>
    /\ UNCHANGED <<uiVars, arg, pipeVars>>

TmdbNext == TmdbStep

SpecTmdb == TmdbInit /\ [][TmdbNext]_vars

(***************************************************************************)
(* The roulette component.  Each action is one task of the browser's event *)
(* loop: an event handler, or the continuation of an await, runs to its    *)
(* next await or to its end and the state updates it made are applied      *)
(* together.  A callback sees the movies of the render that created it.    *)
(***************************************************************************)
Range(s) == {s[k] : k \in DOMAIN s}

RemoveAt(s, k) == SubSeq(s, 1, k - 1) \o SubSeq(s, k + 1, Len(s))

\* what the user types into the input
UrlInputs == {<<>>, <<" ">>, <<"u">>}

\* the lists a response carries; the records of a response are new objects
ListA == <<"a1", "a2">>
ListB == <<"b1">>

\* movie.poster is empty
Posterless == {"b1"}

\* response bodies: { movies }, { error }, or neither
Datas ==
    { [error |-> "", hasMovies |-> TRUE, movies |-> ListA],
      [error |-> "", hasMovies |-> TRUE, movies |-> ListB],
      [error |-> "", hasMovies |-> TRUE, movies |-> <<>>],
      [error |-> "Invalid Letterboxd list URL", hasMovies |-> FALSE, movies |-> <<>>],
      [error |-> "", hasMovies |-> FALSE, movies |-> <<>>] }

\* x || fallback, on messages
OrMessage(x, fallback) == IF x = "" THEN fallback ELSE x

RouletteInit ==
    /\ build \in {"frames", "timer"}
    /\ state = InitialState
    /\ loads = <<>>
    /\ spins = <<>>
    /\ arg = Undef
    /\ ret = <<>>
    /\ PipeIdle

\* <input ... disabled={loading} />
InputEnabled == ~state.loading

\* <button onClick={fetchMovies} disabled={loading}>, in the timer version
\* disabled={loading || preloadingImages}
LoadEnabled ==
    IF build = "timer" THEN ~(state.loading \/ state.preloadingImages) ELSE ~state.loading

\* onChange={(e) => setListUrl(e.target.value)}
SetListUrl ==
    /\ InputEnabled
    /\ \E u \in UrlInputs \ {state.listUrl} : state' = [state EXCEPT !.listUrl = u]
    /\ UNCHANGED <<build, loads, spins, arg, ret, pipeVars>>

\* a click on the button, or Enter in the input, calls fetchMovies
FetchMoviesCalled == Len(loads) < MaxPending /\ (LoadEnabled \/ InputEnabled)

\* if (!listUrl.trim()) { setError(...); return }
FetchMoviesBlank ==
    /\ FetchMoviesCalled
    /\ Trim(state.listUrl) = <<>>
    /\ state' = [state EXCEPT !.error = "Please enter a Letterboxd list URL"]
    /\ UNCHANGED <<build, loads, spins, arg, ret, pipeVars>>

\* variant: the previous list stays until the new one arrives
ClearedKeepingMovies(st) ==
    [st EXCEPT !.loading = TRUE, !.error = "", !.selectedMovie = Null]

\* setLoading(true); setError(''); setSelectedMovie(null); setMovies([])
Cleared(st) ==
    [st EXCEPT !.loading = TRUE, !.error = "", !.selectedMovie = Null, !.movies = <<>>]

\* fetchMovies up to await fetch('/api/fetch-list', ...)
FetchMoviesStart ==
    /\ FetchMoviesCalled
    /\ Trim(state.listUrl) # <<>>
    /\ state' = Cleared(state)
    /\ loads' = Append(loads, [at |-> "fetch", ok |-> FALSE])
    /\ UNCHANGED <<build, spins, arg, ret, pipeVars>>

\* finally { setLoading(false) }, in the timer version also
\* setPreloadingImages(false)
Finally(st) == [st EXCEPT !.loading = FALSE, !.preloadingImages = FALSE]

\* catch (err) { setError(err.message || 'An error occurred ...') } finally
Caught(st, message) ==
    Finally([st EXCEPT !.error = OrMessage(message, "An error occurred while fetching the list")])

\* fetch rejects
FetchRejects(k) ==
    /\ loads[k].at = "fetch"
    /\ \E message \in {"Failed to fetch", ""} : state' = Caught(state, message)
    /\ loads' = RemoveAt(loads, k)
    /\ UNCHANGED <<build, spins, arg, ret, pipeVars>>

\* fetch resolves: const data = await response.json() is awaited
FetchResolves(k) ==
    /\ loads[k].at = "fetch"
    /\ \E ok \in BOOLEAN : loads' = [loads EXCEPT ![k] = [at |-> "json", ok |-> ok]]
    /\ UNCHANGED <<build, state, spins, arg, ret, pipeVars>>

\* the body is not JSON
JsonRejects(k) ==
    /\ loads[k].at = "json"
    /\ state' = Caught(state, "Unexpected token")
    /\ loads' = RemoveAt(loads, k)
    /\ UNCHANGED <<build, spins, arg, ret, pipeVars>>

\* the message thrown inside the try for a parsed body, "" when none is
Thrown(ok, data) ==
    IF ~ok THEN OrMessage(data.error, "Failed to fetch movies")
    ELSE IF ~data.hasMovies THEN "Cannot read properties of undefined"
    ELSE IF Len(data.movies) = 0 THEN "No movies found in this list"
    ELSE ""

\* posters.length > 0 in preloadPosterImages
HasPosters(ms) == \E k \in DOMAIN ms : ms[k] \notin Posterless

\* the body parses and an error is thrown: catch and finally
JsonThrows(k) ==
    /\ loads[k].at = "json"
    /\ \E data \in Datas :
          /\ Thrown(loads[k].ok, data) # ""
          /\ state' = Caught(state, Thrown(loads[k].ok, data))
    /\ loads' = RemoveAt(loads, k)
    /\ UNCHANGED <<build, spins, arg, ret, pipeVars>>

\* setMovies(data.movies), then finally; the timer version first awaits
\* preloadPosterImages, which returns at once when no record has a poster
JsonMovies(k) ==
    /\ loads[k].at = "json"
    /\ \E data \in Datas :
          /\ Thrown(loads[k].ok, data) = ""
          /\ IF build = "timer" /\ HasPosters(data.movies)
             THEN /\ state' = [state EXCEPT !.movies = data.movies, !.preloadingImages = TRUE]
                  /\ loads' = [loads EXCEPT ![k].at = "preload"]
             ELSE /\ state' = Finally([state EXCEPT !.movies = data.movies])
                  /\ loads' = RemoveAt(loads, k)
    /\ UNCHANGED <<build, spins, arg, ret, pipeVars>>

\* every image has loaded or failed (loadImage never rejects):
\* setPreloadingImages(false), then finally
PreloadDone(k) ==
    /\ loads[k].at = "preload"
    /\ state' = Finally(state)
    /\ loads' = RemoveAt(loads, k)
    /\ UNCHANGED <<build, spins, arg, ret, pipeVars>>

\* variant: the button is not disabled while a spin runs
SpinEnabledAlways == TRUE

\* {movies.length > 0 && ... <button onClick={spinRoulette}
\* disabled={isSpinning}>, in the timer version
\* disabled={isSpinning || preloadingImages}
SpinEnabled ==
    /\ Len(state.movies) > 0
    /\ ~state.isSpinning
    /\ build = "timer" => ~state.preloadingImages

\* spinRoulette up to requestAnimationFrame(spin) or setTimeout(...): the
\* callback keeps this render's movies; the timer version draws finalMovie
\* here
SpinRoulette ==
    /\ SpinEnabled
    /\ Len(spins) < MaxPending
    /\ Len(state.movies) # 0
    /\ state' = [state EXCEPT !.isSpinning = TRUE, !.selectedMovie = Null]
    /\ \E final \in (IF build = "timer" THEN Range(state.movies) ELSE {Null}) :
          spins' = Append(spins, [movies |-> state.movies, frames |-> 0, final |-> final])
    /\ UNCHANGED <<build, loads, arg, ret, pipeVars>>

\* spin() with progress < 1: a random movie is shown and the next frame is
\* requested
SpinFrame(k) ==
    /\ build = "frames"
    /\ spins[k].frames < MaxFrames
    /\ \E m \in Range(spins[k].movies) : state' = [state EXCEPT !.selectedMovie = m]
    /\ spins' = [spins EXCEPT ![k].frames = @ + 1]
    /\ UNCHANGED <<build, loads, arg, ret, pipeVars>>

\* spin() with progress = 1: the final selection
SpinFinal(k) ==
    /\ build = "frames"
    /\ \E m \in Range(spins[k].movies) :
          state' = [state EXCEPT !.selectedMovie = m, !.isSpinning = FALSE]
    /\ spins' = RemoveAt(spins, k)
    /\ UNCHANGED <<build, loads, arg, ret, pipeVars>>

\* setTimeout(() => { setSelectedMovie(finalMovie); setIsSpinning(false) ... },
\* spinDuration)
SpinTimeout(k) ==
    /\ build = "timer"
    /\ state' = [state EXCEPT !.selectedMovie = spins[k].final, !.isSpinning = FALSE]
    /\ spins' = RemoveAt(spins, k)
    /\ UNCHANGED <<build, loads, arg, ret, pipeVars>>

\* a callback of a running spin
SpinStep == \E k \in DOMAIN spins : SpinFrame(k) \/ SpinFinal(k) \/ SpinTimeout(k)

RouletteNext ==
    \/ SetListUrl
    \/ FetchMoviesBlank
    \/ FetchMoviesStart
    \/ \E k \in DOMAIN loads : FetchRejects(k)
    \/ \E k \in DOMAIN loads : FetchResolves(k)
    \/ \E k \in DOMAIN loads : JsonRejects(k)
    \/ \E k \in DOMAIN loads : JsonThrows(k)
    \/ \E k \in DOMAIN loads : JsonMovies(k)
    \/ \E k \in DOMAIN loads : PreloadDone(k)
    \/ SpinRoulette
    \/ \E k \in DOMAIN spins : SpinFrame(k)
    \/ \E k \in DOMAIN spins : SpinFinal(k)
    \/ \E k \in DOMAIN spins : SpinTimeout(k)

SpecRoulette == RouletteInit /\ [][RouletteNext]_vars

\* the browser runs a requested animation frame and a due timer
FairSpecRoulette == SpecRoulette /\ WF_vars(SpinStep)

(***************************************************************************)
(* Properties                                                              *)
(***************************************************************************)
\* the result of the first method, in the order (a), (b), (c), that finds a record
FirstNonEmpty(doc) ==
    IF Method1(doc.blocks) # <<>> THEN Method1(doc.blocks)
    ELSE IF Method2(doc.lis) # <<>> THEN Method2(doc.lis)
    ELSE Method3(doc.ul)

\* the last response sent
LastRes == res[Len(res)]
Succeeded == pc = "done" /\ res # <<>> /\ LastRes.status = 200

\* a string that contains one of the two placeholder markers
ContainsMarker(p) == Includes(p, EmptyPoster) \/ Includes(p, StaticImgEmpty)

\* a string that begins with http:// or https://
IsAbsoluteHttpUrl(p) ==
    StartsWith(p, <<"http", "://">>) \/ StartsWith(p, <<"http", "s", "://">>)

\* C1: the records the handler passes on after extraction are the result of
\* exactly one method: method 1's if it is not empty, otherwise method 2's if
\* it is not empty, otherwise method 3's; method 2 runs only when method 1
\* found nothing and method 3 only when methods 1 and 2 found nothing.
C1_OneStrategy ==
    pc = "extracted" =>
        /\ movies = FirstNonEmpty(html)
        /\ 2 \in ran => Method1(html.blocks) = <<>>
        /\ 3 \in ran => Method1(html.blocks) = <<>> /\ Method2(html.lis) = <<>>

\* method 1 found nothing, method 2 found records, and the page also has a
\* poster list with records that were not merged in
C1_Witness ==
    /\ pc = "extracted"
    /\ Method1(html.blocks) = <<>>
    /\ html.blocks # <<>>
    /\ Method2(html.lis) # <<>>
    /\ Method3(html.ul) # <<>>
    /\ movies = Method2(html.lis)

\* C2: every record of the collection the handler returns has a non-empty
\* title, whichever method produced it.
C2_TitlesNonEmpty ==
    Succeeded => \A k \in 1..Len(LastRes.body.movies) : LastRes.body.movies[k].title # <<>>

\* C3: after extraction and after enrichment every record's poster is empty
\* or an absolute http(s) URL without a placeholder marker.
C3_PostersAbsolute ==
    pc \in {"extracted", "loop", "awaitAll", "delay", "enriched", "done"} =>
        \A k \in 1..Len(movies) :
            \/ movies[k].poster = <<>>
            \/ IsAbsoluteHttpUrl(movies[k].poster) /\ ~ContainsMarker(movies[k].poster)

\* C4: the poster normalization is idempotent: applied to its own result it
\* returns that result.
C4_Idempotent == Len(ret) = 2 => ret[2] = ret[1]

\* C5: the poster normalization never returns a string that contains a
\* placeholder marker, and an input whose rewritten, prefixed form contains
\* one yields the empty string.
C5_NoMarker ==
    /\ \A k \in 1..Len(ret) : ~ContainsMarker(ret[k])
    /\ (Len(ret) >= 1 /\ ContainsMarker(EnsureFullUrl(UpgradeCrop(arg.v)))) => ret[1] = <<>>

\* an input with the second marker behind a crop token and no scheme
C5_Witness ==
    /\ Len(ret) >= 1
    /\ Includes(arg.v, StaticImgEmpty)
    /\ Includes(arg.v, <<"0-230-0-345-crop">>)
    /\ ~StartsWith(arg.v, <<"http">>)
    /\ ret[1] = <<>>

\* one pass over the text, left to right: a known entity becomes its
\* character, every other token is copied
EntityChar(body) ==
    CASE body = "#039;" -> <<"'">>
      [] body = "amp;" -> <<"&">>
      [] body = "quot;" -> <<"\"">>
      [] body = "lt;" -> <<"<">>
      [] body = "gt;" -> <<">">>
      [] body = "nbsp;" -> <<" ">>
      [] body = "apos;" -> <<"'">>
      [] OTHER -> <<>>

RECURSIVE SimultaneousDecode(_)
SimultaneousDecode(s) ==
    IF s = <<>> THEN <<>>
    ELSE IF Len(s) >= 2 /\ s[1] = "&" /\ EntityChar(s[2]) # <<>>
         THEN EntityChar(s[2]) \o SimultaneousDecode(SubSeq(s, 3, Len(s)))
         ELSE <<s[1]>> \o SimultaneousDecode(Tail(s))

\* C6: decodeHtmlEntities equals one simultaneous substitution of the seven
\* known entities over its input ('&amp;lt;' gives '&lt;'); an empty or
\* absent input is returned unchanged.
C6_SimultaneousSubstitution ==
    ret # <<>> =>
        ret[1] = (IF Falsy(arg) THEN arg ELSE Str(SimultaneousDecode(arg.v)))

\* the entries of the ItemList blocks of a page, in document order
RECURSIVE AllElems(_)
AllElems(blocks) ==
    IF blocks = <<>> THEN <<>>
    ELSE (IF Head(blocks).k = "list" THEN Head(blocks).elems ELSE <<>>)
         \o AllElems(Tail(blocks))

\* an entry with an item, a non-empty string name and an image that is absent
\* or a string
WellFormed(e) ==
    /\ e.k = "item"
    /\ IsStr(e.name) /\ e.name.v # <<>>
    /\ Falsy(e.image) \/ IsStr(e.image)

ValidImage(e) == IsStr(e.image) /\ e.image.v # <<>> /\ ~ContainsMarker(e.image.v)

\* C7: for a page whose N structured-data list entries are all well formed
\* with non-empty names, method 1 returns exactly N records, in document
\* order across and within the blocks, each with the entry's decoded name;
\* where every entry has a valid image that is no placeholder, every poster
\* is non-empty.
C7_Method1Complete ==
    LET es == AllElems(html.blocks)
    IN (pc = "method2" /\ \A k \in 1..Len(es) : WellFormed(es[k])) =>
          /\ Len(movies) = Len(es)
          /\ \A k \in 1..Len(es) :
                /\ movies[k].title = DecodeChain(es[k].name.v)
                /\ movies[k].year = es[k].datePublished
                /\ movies[k].link = es[k].url
          /\ (\A k \in 1..Len(es) : ValidImage(es[k])) =>
                \A k \in 1..Len(es) : movies[k].poster # <<>>

\* two ItemList blocks with well-formed entries of different names and valid
\* images
C7_Witness ==
    LET es == AllElems(html.blocks)
    IN /\ pc = "method2"
       /\ Len(html.blocks) = 2
       /\ html.blocks[1].k = "list" /\ html.blocks[2].k = "list"
       /\ Len(es) = 2
       /\ \A k \in 1..2 : WellFormed(es[k]) /\ ValidImage(es[k])
       /\ movies[1].title = <<"A">>
       /\ movies[2].title = <<"B", "&", "B">>
       /\ movies[1].poster # <<>> /\ movies[2].poster # <<>>

\* a record without its poster
Strip(m) == [title |-> m.title, year |-> m.year, director |-> m.director, link |-> m.link]

\* C8: from its call to its return enrichMoviesWithPosters keeps the number
\* of records, their order and every field but poster, in every order of
\* completion and for every outcome of the lookups, and the collection it
\* returns, which the handler sends, is the one it was given.
C8_EnrichKeepsRecords ==
    [][ /\ pc \in {"extracted", "loop", "awaitAll", "delay", "enriched"} =>
             /\ Len(movies') = Len(movies)
             /\ \A k \in 1..Len(movies) : Strip(movies'[k]) = Strip(movies[k])
        /\ (pc = "enriched" /\ pc' = "done") =>
             res' = Append(res, Response(200, MoviesBody(movies))) ]_vars

\* a page of more than one batch was enriched: a record of the second batch
\* got a TMDB poster, its neighbour kept the poster it had
C8_Witness ==
    /\ Succeeded
    /\ Len(movies) > batchSize
    /\ StartsWith(movies[Len(movies)].poster, TmdbBase)
    /\ movies[1].poster = AbsUrl
    /\ movies[1].title # movies[2].title

\* C9: without a TMDB key (or with no record) no search request is sent and
\* no delay is started, the records keep every field, and the handler
\* answers 200 with the extracted records.
C9_NoKeyNoEnrichment ==
    /\ (~apiKey \/ movies = <<>>) => nreq = 0 /\ ndelay = 0
    /\ (~apiKey /\ extracted # <<>>) => movies = extracted
    /\ (~apiKey /\ extracted # <<>> /\ pc = "done") =>
          res = <<Response(200, MoviesBody(extracted))>>

\* no key: the handler answered 200 with a record that still lacks a poster
C9_Witness ==
    /\ ~apiKey
    /\ Succeeded
    /\ \E k \in 1..Len(movies) : movies[k].poster = <<>>
    /\ LastRes.body.movies = movies

\* C10: a lookup that fails (response not ok, fetch or body parse throwing)
\* leaves its record's poster as it was; every record that lacked a poster
\* is still looked up, in the same batch and in later ones, and the handler
\* answers 200 with all extracted records.
C10_FailuresAbsorbed ==
    /\ (pc = "done" /\ extracted # <<>>) =>
          /\ LastRes.status = 200
          /\ Len(LastRes.body.movies) = Len(extracted)
    /\ \A k \in DOMAIN lookup :
          lookup[k] = "failed" => movies[k].poster = extracted[k].poster
    /\ (apiKey /\ extracted # <<>> /\ pc \in {"enriched", "done"}) =>
          \A k \in 1..Len(extracted) :
              NeedsPoster(extracted[k]) => lookup[k] \in {"failed", "done"}

\* the first lookup failed; the second of the same batch and the one of the
\* next batch found posters; the handler answered 200
C10_Witness ==
    /\ Succeeded
    /\ Len(movies) > batchSize
    /\ Len(lookup) = Len(movies)
    /\ lookup[1] = "failed" /\ movies[1].poster = <<>>
    /\ lookup[2] = "done" /\ StartsWith(movies[2].poster, TmdbBase)
    /\ lookup[batchSize + 1] = "done" /\ StartsWith(movies[batchSize + 1].poster, TmdbBase)

\* C11: with a key, a record whose poster is empty or a placeholder and whose
\* search response has a non-empty results array ends with the poster
\* 'https://image.tmdb.org/t/p/w500' + poster_path of the first result; when
\* the first result has no poster_path the poster is left as it was, whatever
\* the later results hold.
C11_FirstResultOnly ==
    (ret # <<>> /\ arg.key /\ NeedsPoster(arg.movie) /\ Len(arg.results) > 0) =>
        /\ Strip(ret[1]) = Strip(arg.movie)
        /\ ret[1].poster =
              (IF arg.results[1] # <<>>
               THEN <<"http", "s", "://", "image.tmdb.org/t/p/w500">> \o arg.results[1]
               ELSE arg.movie.poster)

\* the first result has no poster_path, the second has one, and the
\* placeholder poster is still there
C11_Witness ==
    /\ ret # <<>>
    /\ arg.key
    /\ arg.movie.poster = PlaceholderUrl
    /\ arg.results = <<<<>>, OtherPath>>
    /\ ret[1].poster = PlaceholderUrl

\* the records of the extracted list that lack a usable poster
Needy == {k \in 1..Len(extracted) : NeedsPoster(extracted[k])}

\* the records whose lookup has not returned
InFlight == {k \in DOMAIN lookup : lookup[k] \in {"fetch", "json"}}

\* C12: with a key, N records are processed in ceil(N/5) groups of at most 5
\* consecutive records, the pacing delay is started ceil(N/5)-1 times, and
\* every record that needs a poster is looked up exactly once.
C12_GroupsAndDelays ==
    /\ (apiKey /\ extracted # <<>> /\ pc \in {"enriched", "done"}) =>
          LET groups == (Len(extracted) + 4) \div 5
          IN /\ i = 5 * groups
             /\ ndelay = groups - 1
             /\ nreq = Cardinality(Needy)
             /\ \A k \in 1..Len(extracted) : lookup[k] # "idle" <=> k \in Needy
    /\ pc \in {"awaitAll", "delay"} =>
          /\ InFlight \subseteq (i + 1)..(i + 5)
          /\ ndelay = (i \div 5) + (IF pc = "delay" THEN 1 ELSE 0)

\* eleven records: three groups, two delays, one lookup
C12_Witness ==
    /\ pc = "done"
    /\ apiKey
    /\ Len(extracted) = 11
    /\ i = 15
    /\ ndelay = 2
    /\ nreq = 1
    /\ lookup[11] = "done"

\* the request carries no URL: no body at all, or a body whose url is absent
\* or empty
UrlAbsent == req.body = Undef \/ Falsy(req.body.url)

\* the list-page shape: http or https, host letterboxd.com with or without
\* www., and a /list/ segment in the path
ListPageShape(u) ==
    \E scheme \in {<<"http">>, <<"http", "s">>}, www \in {<<>>, <<"www.">>} :
        LET pre == scheme \o <<"://">> \o www \o <<"letterboxd.com">>
        IN StartsWith(u, pre) /\ \E k \in (Len(pre) + 1)..Len(u) : u[k] = "/list/"

\* C13: a POST request whose URL is absent or does not have the list-page
\* shape ends with the response 400, and no list-page fetch, no extraction
\* and no lookup is performed.
C13_InvalidUrlRejected ==
    (/\ req.method = "POST"
     /\ pc \in {"done", "thrown"}
     /\ (UrlAbsent \/ ~ListPageShape(req.body.url.v))) =>
        /\ Len(res) = 1 /\ res[1].status = 400
        /\ nfetch = 0 /\ ran = {} /\ nreq = 0

\* C14: when the list page's response has a non-success status s, the
\* handler answers with the error that carries s: no extraction method and
\* no lookup runs, and the answer is neither the success nor the not-found
\* response.
C14_TransportErrorCarriesStatus ==
    (response # 0 /\ response \notin 200..299) =>
        /\ ran = {} /\ movies = <<>> /\ nreq = 0
        /\ pc \in {"responded", "done"}
        /\ pc = "done" =>
              /\ Len(res) = 1
              /\ res[1].status = 500
              /\ res[1].body.error = "Failed to fetch list: "
              /\ res[1].body.upstream = response

\* the list page answers 404 and the handler's error carries 404
C14_Witness ==
    /\ pc = "done"
    /\ response = 404
    /\ res = <<Response(500, FetchErrorBody(404))>>

\* no method finds a record on the page
NoRecords(doc) ==
    Method1(doc.blocks) = <<>> /\ Method2(doc.lis) = <<>> /\ Method3(doc.ul) = <<>>

\* C15: when the page was fetched and no method yields a record the handler
\* answers not-found (404), a status no failed fetch is answered with, and
\* issues no lookup; with at least one record the answer is never not-found.
C15_NotFound ==
    pc = "done" =>
        /\ (1 \in ran /\ NoRecords(html)) =>
              /\ Len(res) = 1 /\ res[1].status = 404
              /\ nreq = 0 /\ ndelay = 0
        /\ (1 \in ran /\ ~NoRecords(html)) =>
              /\ Len(res) = 1 /\ res[1].status = 200
              /\ res[1].body.movies # <<>>
        /\ (req.method = "POST" /\ ran = {}) => res[1].status \in {400, 500}

\* a page with a block that does not parse, a list item without a title and
\* an empty poster list is answered 404 without a lookup, the key being set
C15_Witness ==
    /\ pc = "done"
    /\ apiKey
    /\ html.blocks # <<>> /\ html.lis # <<>> /\ html.ul # NoUl
    /\ ran = {1, 2, 3}
    /\ res = <<Response(404, ErrorBody("No movies found in this list. Make sure the list is public."))>>
    /\ nreq = 0

\* the page has a JSON-LD block that does not parse or an entry whose
\* reading throws
HasDecodeFailure(doc) ==
    \E b \in 1..Len(doc.blocks) :
        \/ doc.blocks[b].k = "bad"
        \/ /\ doc.blocks[b].k = "list"
           /\ \E e \in 1..Len(doc.blocks[b].elems) : ElemThrows(doc.blocks[b].elems[e])

\* a URL that is absent, has not the list-page shape or names no list after
\* the /list/ segment
InvalidUrl ==
    \/ UrlAbsent
    \/ ~ListPageShape(req.body.url.v)
    \/ req.body.url.v[Len(req.body.url.v)] = "/list/"

\* C16: every invocation with a POST request ends with exactly one of four
\* outcomes: success with a non-empty list, validation failure, transport
\* failure or not-found; a failure comes only from an invalid URL, a failed
\* or non-success fetch of the page, or zero extracted records, never from a
\* decode failure or a failed lookup.
C16_FourOutcomes ==
    (req.method = "POST" /\ pc \in {"done", "thrown"}) =>
        /\ pc = "done"
        /\ Len(res) = 1
        /\ \/ res[1].status = 200 /\ res[1].body.movies # <<>>
           \/ res[1].status = 400 /\ InvalidUrl /\ nfetch = 0
           \/ res[1].status = 500 /\ nfetch = 1 /\ ran = {}
           \/ res[1].status = 404 /\ 1 \in ran /\ extracted = <<>>
        /\ (\E k \in DOMAIN lookup : lookup[k] = "failed") => res[1].status = 200
        /\ (1 \in ran /\ HasDecodeFailure(html) /\ ~NoRecords(html)) => res[1].status = 200

\* C17: the groups run strictly one after the other: a lookup of a later
\* group is not started before every lookup of the group before it has
\* returned and the delay that follows that group has elapsed, in every
\* order of completion.
C17_GroupsSequential ==
    /\ InFlight # {} => pc = "awaitAll"
    /\ pc \in {"awaitAll", "delay"} =>
          \A k \in DOMAIN lookup : k > i + 5 => lookup[k] = "idle"
    /\ pc = "loop" =>
          \A k \in DOMAIN lookup : k > i => lookup[k] = "idle"
    /\ \A k \in DOMAIN lookup :
          lookup[k] # "idle" =>
              /\ ndelay >= (k - 1) \div 5
              /\ pc = "delay" => ndelay > (k - 1) \div 5

\* the second group's lookup is in flight after the first group's lookups
\* returned in both ways and one delay
C17_Witness ==
    /\ pc = "awaitAll"
    /\ i = 5
    /\ ndelay = 1
    /\ lookup[6] = "json"
    /\ lookup[1] = "failed"
    /\ lookup[2] = "done"

\* C18: a lookup is issued only for a record whose poster is empty or holds
\* a placeholder marker; a record with any other poster is never looked up
\* and keeps its poster, and a lookup without a match leaves the poster as
\* it was.
C18_LookupOnlyWhenNeeded ==
    \A k \in DOMAIN lookup :
        LET before == extracted[k].poster
            wanted == before = <<>> \/ ContainsMarker(before)
        IN /\ lookup[k] # "idle" => wanted
           /\ ~wanted => movies[k].poster = before
           /\ lookup[k] \in {"fetch", "json", "failed"} => movies[k].poster = before
           /\ lookup[k] = "done" =>
                 \/ movies[k].poster = before
                 \/ movies[k].poster = <<"http", "s", "://", "image.tmdb.org/t/p/w500">> \o PosterPath

\* the answer holds a record that was not looked up and kept its poster, and
\* a record whose lookup found no match and left its poster empty
C18_Witness ==
    /\ pc = "done"
    /\ apiKey
    /\ Len(lookup) = 2
    /\ lookup[1] = "idle" /\ extracted[1].poster # <<>>
    /\ res[1].body.movies[1].poster = extracted[1].poster
    /\ lookup[2] = "done" /\ extracted[2].poster = <<>>
    /\ res[1].body.movies[2].poster = <<>>

\* C19: during enrichment every record has at most one lookup, started once
\* and never again, and its poster is written only by the continuation of
\* its own lookup: a step writes at most one record, the one whose lookup
\* returns in that step.
C19_OneLookupPerRecord ==
    [][ /\ DOMAIN lookup' = DOMAIN lookup =>
              \A k \in DOMAIN lookup :
                  (lookup'[k] = "fetch" /\ lookup[k] # "fetch") => lookup[k] = "idle"
        /\ nreq' = Cardinality({k \in DOMAIN lookup' : lookup'[k] # "idle"})
        /\ pc \in {"loop", "awaitAll", "delay"} =>
              \A k \in 1..Len(movies) :
                  movies'[k] # movies[k] =>
                      /\ lookup[k] = "json" /\ lookup'[k] = "done"
                      /\ \A j \in (1..Len(movies)) \ {k} :
                            movies'[j] = movies[j] /\ lookup'[j] = lookup[j]
      ]_vars

\* three lookups of one group at once: one awaits the response, one the
\* body, one has written its record
C19_Witness ==
    /\ pc = "awaitAll"
    /\ Len(lookup) >= 3
    /\ lookup[1] = "fetch"
    /\ lookup[2] = "json"
    /\ lookup[3] = "done"
    /\ movies[3].poster # extracted[3].poster
    /\ nreq = 3

\* the blocks of a page that parse
ParsingBlocks(blocks) == SelectSeq(blocks, LAMBDA b : b.k # "bad")

\* the records of the blocks that parse, block by block
RECURSIVE RecordsOf(_)
RecordsOf(blocks) ==
    IF blocks = <<>> THEN <<>>
    ELSE (IF Head(blocks).k = "list" THEN BlockRecords(Head(blocks).elems) ELSE <<>>)
         \o RecordsOf(Tail(blocks))

\* C20: in method 1 a block that does not parse is skipped: the records of
\* every other block are kept, in order, and method 2 is entered only when
\* method 1 ends with no record at all.
C20_BadBlockSkipped ==
    /\ pc = "method2" => movies = RecordsOf(ParsingBlocks(html.blocks))
    /\ pc = "method3" => (2 \in ran <=> RecordsOf(ParsingBlocks(html.blocks)) = <<>>)

\* a block that does not parse stands before a block with a record, and
\* method 2 was not entered
C20_Witness ==
    /\ pc = "method3"
    /\ Len(html.blocks) = 2
    /\ html.blocks[1] = BadBlock
    /\ html.blocks[2].k = "list"
    /\ html.lis # <<>>
    /\ Len(movies) = 1
    /\ ran = {1}

\* a block without its malformed entries: null entries and entries whose
\* image or name is a value of the wrong type
WithoutMalformed(b) ==
    IF b.k = "list"
    THEN ListBlock(SelectSeq(b.elems, LAMBDA e : ~ElemThrows(e)))
    ELSE b

\* C21: in method 1 a malformed entry is skipped by itself: the well-formed
\* entries that follow it in the same block are still extracted, so the
\* records are those of the page without its malformed entries.
C21_MalformedEntrySkipped ==
    pc = "method2" =>
        movies = RecordsOf([b \in 1..Len(html.blocks) |-> WithoutMalformed(html.blocks[b])])

\* the list items and the poster-list items that have a title
TitledLis(doc) == SelectSeq(doc.lis, LAMBDA li : LiTitle(li) # <<>>)
TitledUlItems(doc) ==
    IF doc.ul.k = "ul" THEN SelectSeq(doc.ul.items, LAMBDA it : UlTitle(it) # <<>>) ELSE <<>>

\* C22: in each method the records stand in the document order of the
\* matched elements and nothing is deduplicated: the k-th record is the
\* record of the k-th matched element, so k elements with one title give k
\* records.
C22_OrderNoDedup ==
    /\ pc = "method2" => movies = RecordsOf(html.blocks)
    /\ (pc = "method3" /\ 2 \in ran) =>
          movies = [k \in 1..Len(TitledLis(html)) |-> LiRecord(TitledLis(html)[k])]
    /\ (pc = "extracted" /\ 3 \in ran) =>
          movies = [k \in 1..Len(TitledUlItems(html)) |-> UlRecord(TitledUlItems(html)[k])]

\* method 2 on three list items, the first and the last with the same title
C22_Witness ==
    /\ pc = "method3"
    /\ 2 \in ran
    /\ Len(html.lis) = 3
    /\ Len(movies) = 3
    /\ movies[1].title = movies[3].title
    /\ movies[1].title # movies[2].title
    /\ movies[1].title # <<>>

\* the title and the year the rule of method 2 gives for a list item: the
\* attribute when it is there, the fallback otherwise
AttributeFirstTitle(li) ==
    DecodeChain(Trim(IF li.filmName # <<>> THEN li.filmName ELSE li.linkText))
AttributeFirstYear(li) ==
    IF li.releaseYear # <<>> THEN li.releaseYear ELSE li.permalinkYear

\* C23: in method 2 the title comes from the data-film-name attribute when
\* it is present and non-empty and from the film link's text only otherwise,
\* the year from the data-film-release-year attribute when present and from
\* the permalink's 4-digit segment only otherwise; an item with neither
\* title source gives no record.
C23_Method2Sources ==
    (pc = "method3" /\ 2 \in ran) =>
        LET kept == SelectSeq(html.lis, LAMBDA li : AttributeFirstTitle(li) # <<>>)
        IN /\ Len(movies) = Len(kept)
           /\ \A k \in 1..Len(kept) :
                 /\ movies[k].title = AttributeFirstTitle(kept[k])
                 /\ movies[k].year = AttributeFirstYear(kept[k])
           /\ (\A k \in 1..Len(html.lis) :
                   html.lis[k].filmName = <<>> /\ html.lis[k].linkText = <<>>)
                 => movies = <<>>

\* an item with both sources, an item with neither title source and an item
\* with the fallbacks only
C23_Witness ==
    /\ pc = "method3"
    /\ 2 \in ran
    /\ Len(html.lis) = 3
    /\ html.lis[1].filmName # <<>> /\ html.lis[1].linkText # <<>>
    /\ html.lis[1].releaseYear # <<>> /\ html.lis[1].permalinkYear # <<>>
    /\ html.lis[2].filmName = <<>> /\ html.lis[2].linkText = <<>>
    /\ html.lis[3].filmName = <<>> /\ html.lis[3].releaseYear = <<>>
    /\ Len(movies) = 2
    /\ movies[1].title = <<"A">> /\ movies[1].year = <<"2020">>
    /\ movies[2].title = <<"B", "&", "B">> /\ movies[2].year = <<"1999">>

\* the title the rule of method 3 gives for a poster-list item: the
\* capitalized slug, or else the decoded alt text as it stands
SlugOrPlainAlt(it) ==
    IF it.slug # <<>> THEN Capitalize(it.slug) ELSE DecodeChain(it.alt)

\* C24: in method 3 the title is the data-film-slug value with hyphens
\* replaced by spaces and every word capitalized when the slug is present;
\* when it is absent the title is the decoded alt text, without the hyphen
\* replacement and the capitalization.
C24_Method3Title ==
    (pc = "extracted" /\ 3 \in ran /\ html.ul.k = "ul") =>
        LET kept == SelectSeq(html.ul.items, LAMBDA it : SlugOrPlainAlt(it) # <<>>)
        IN /\ Len(movies) = Len(kept)
           /\ \A k \in 1..Len(kept) : movies[k].title = SlugOrPlainAlt(kept[k])

\* the records the handler holds, and the records of every response it sent
RecordLists == {movies} \cup {res[n].body.movies : n \in DOMAIN res}

\* C25: every record of the list-item strategy has an empty director, and
\* every record of the poster-list strategy has an empty year and an empty
\* director, from extraction through enrichment to the response.
C25_EmptyFields ==
    /\ (2 \in ran /\ 3 \notin ran) =>
          \A ms \in RecordLists : \A k \in DOMAIN ms : ms[k].director = <<>>
    /\ 3 \in ran =>
          \A ms \in RecordLists : \A k \in DOMAIN ms :
              ms[k].year = <<>> /\ ms[k].director = <<>>

\* a poster-list record whose poster came from a lookup was sent with an
\* empty year and director
C25_Witness ==
    /\ pc = "done"
    /\ 3 \in ran
    /\ Len(res) = 1 /\ res[1].status = 200
    /\ Len(extracted) = 1
    /\ Len(lookup) = 1 /\ lookup[1] = "done"
    /\ res[1].body.movies[1].poster # extracted[1].poster
    /\ res[1].body.movies[1].year = <<>>
    /\ res[1].body.movies[1].director = <<>>

\* C26: at every moment of enrichment at most 5 search requests are
\* outstanding, whatever the number of records and the order in which the
\* lookups complete.
C26_AtMostFiveOutstanding == Cardinality(InFlight) <= 5

\* six records need a poster: five lookups of the first group are
\* outstanding, some answered and some not, the sixth not yet started
C26_Witness ==
    /\ pc = "awaitAll"
    /\ i = 0
    /\ Needy = 1..6
    /\ Cardinality(InFlight) = 5
    /\ lookup[1] = "fetch" /\ lookup[5] = "json"
    /\ lookup[6] = "idle"

\* C27: in the roulette component, under every interleaving of list loads
\* and spin callbacks, a selected movie is an element of the current movies
\* list; a load started during a spin leaves no movie of the previous list
\* selected.
C27_SelectionInCurrentList ==
    state.selectedMovie # Null => state.selectedMovie \in Range(state.movies)

\* C28: in the roulette component a spin starts only when the list is not
\* empty and no spin is running, at most one spin is active at any time, a
\* spin ends with isSpinning false and selectedMovie an element of the list
\* it was started on, and every started spin eventually ends.
C28_SpinLifecycle ==
    /\ [][Len(spins') > Len(spins) =>
            (Len(state.movies) > 0 /\ ~state.isSpinning /\ spins = <<>>)]_vars
    /\ [](Len(spins) <= 1)
    /\ [][Len(spins') < Len(spins) =>
            (~state'.isSpinning /\ state'.selectedMovie \in Range(spins[1].movies))]_vars
    /\ (spins # <<>>) ~> (spins = <<>> /\ ~state.isSpinning)

\* a spin of the timer version over a list of two movies has ended on the
\* second one
C28_Witness ==
    /\ build = "timer"
    /\ spins = <<>>
    /\ ~state.isSpinning
    /\ state.movies = ListA
    /\ state.selectedMovie = "a2"

\* C29: in the roulette component a list load starts only with a non-blank
\* URL and with no other load in flight, and its start clears error,
\* selection and movies; while it is in flight loading is true; when it
\* settles loading is false and either movies is non-empty and error empty,
\* or movies is empty and error non-empty.
C29_LoadLifecycle ==
    /\ [][Len(loads') > Len(loads) =>
            /\ Trim(state.listUrl) # <<>>
            /\ loads = <<>>
            /\ state'.loading
            /\ state'.error = ""
            /\ state'.selectedMovie = Null
            /\ state'.movies = <<>>]_vars
    /\ [](Len(loads) <= 1 /\ (loads # <<>> => state.loading))
    /\ [][Len(loads') < Len(loads) =>
            /\ ~state'.loading
            /\ \/ state'.movies # <<>> /\ state'.error = ""
               \/ state'.movies = <<>> /\ state'.error # ""]_vars

\* a load after a loaded list was answered with an empty list
C29_Witness ==
    /\ loads = <<>>
    /\ ~state.loading
    /\ state.movies = <<>>
    /\ state.error = "No movies found in this list"
    /\ state.selectedMovie = "a1"

\* C30: every invocation of the handler sends exactly one response on every
\* path: never two, and when it has ended one of 405, 400, 404, 500 or 200;
\* a request with another method than POST gets 405 before any validation
\* or fetch.
C30_ExactlyOneResponse ==
    /\ Len(res) <= 1
    /\ pc \in {"done", "thrown"} =>
          /\ Len(res) = 1
          /\ res[1].status \in {405, 400, 404, 500, 200}
          /\ req.method # "POST" => (res[1].status = 405 /\ nfetch = 0)

====
